---- MODULE Spec2Model ----
(***************************************************************************)
(* slog-async (src/lib.rs): the Async facade over AsyncCore.  Producer     *)
(* threads call Async::log; AsyncCore hands AsyncMsg values to one worker  *)
(* thread through a bounded mpsc::sync_channel; the worker replays every   *)
(* record into the wrapped drain and returns on AsyncMsg::Finish.          *)
(***************************************************************************)
EXTENDS Integers, Sequences, FiniteSets, TLC

\* Largest chan_size the builder is given (AsyncCoreBuilder::chan_size).
MaxCap == 2
\* Total number of Async::log calls made over the life of the pipeline.
MaxLogs == 4

Producers == {"p1", "p2"}
Main == "main"
Threads == Producers \cup {Main}

VARIABLES
    cap,        \* chan_size given to mpsc::sync_channel
    queue,      \* the channel's buffer, oldest message first
    wstate,     \* worker thread: "recv", "busy", "done", "panicked"
    cur,        \* the record the worker is replaying into the drain
    sunk,       \* the records the drain has logged, in order
    dropped,    \* Async.dropped
    tl_sender,  \* threads that hold a cached clone in AsyncCore.tl_sender
    poisoned,   \* AsyncCore.ref_sender is poisoned
    join,       \* AsyncCore.join holds Some(handle)
    pc,         \* each thread's position
    n,          \* push_dropped's local `dropped`
    calls,      \* Async::log calls started by each thread
    res,        \* what the thread's last Async::log call returned
    noticeRes,  \* AsyncCore::log result for the notice of the last call
    eventRes,   \* AsyncCore::log result for the record of the last call
    coreErr,    \* what the thread's last try_send answered
    phase,      \* "alive", "dropping", "dropped"
    dropper,    \* the thread that runs Async::drop
    fulls,      \* history: enqueues that returned AsyncError::Full
    noticed,    \* history: sum of the counts of the notices enqueued
    accepted,   \* history: records enqueued
    evDropped,  \* history: the part of `dropped` that counts callers' records
    heldEv,     \* history: the part of `n` that counts callers' records
    ndDropped,  \* history: the part of `dropped` that counts dropped notices
    heldNd,     \* history: the part of `n` that counts dropped notices
    finishSent, \* history: AsyncMsg::Finish messages enqueued
    joinCount,  \* history: JoinHandle::join calls
    locks,      \* history: ref_sender.lock() calls by each thread
    outcome,    \* history: "sent" / "dropped" / "fatal" for each finished call
    sunkAt,     \* history: Len(sunk) when the thread's last call started
    mpc,        \* one record's way through AsyncCore::log and the worker
    record,     \* the slog::Record of that call, as it is during the call
    live,       \* the caller's borrowed data is still what it was in the call
    arec,       \* the AsyncRecord built from it
    seen        \* what the drain was shown by the replay

chanVars == <<cap, queue, wstate, cur, sunk>>
coreVars == <<tl_sender, poisoned, join, locks>>
threadVars == <<pc, n, calls, res, noticeRes, eventRes, coreErr, outcome, sunkAt>>
dropVars == <<phase, dropper, finishSent, joinCount>>
countVars == <<dropped, fulls, noticed, accepted, evDropped, heldEv, ndDropped, heldNd>>
matVars == <<mpc, record, live, arec, seen>>
vars == <<chanVars, coreVars, threadVars, dropVars, countVars, matVars>>

----
\* AsyncMsg values.  `by` and `seq` name the log call a message comes from,
\* `evs` and `nds` are the parts of `count` that count callers' records and
\* dropped notices.
NoRec == [kind |-> "none", by |-> "none", seq |-> 0, count |-> 0, evs |-> 0, nds |-> 0]
Ev(t, i) == [kind |-> "ev", by |-> t, seq |-> i, count |-> 0, evs |-> 0, nds |-> 0]
\* Variant: the notice counts itself.
NoticeCountPlusOne(k) == k + 1

\* b!("count" => dropped)
NoticeCount(k) == k
Notice(t, i, k, e, d) ==
    [kind |-> "notice", by |-> t, seq |-> i, count |-> NoticeCount(k), evs |-> e, nds |-> d]
Finish == [kind |-> "finish", by |-> "none", seq |-> 0, count |-> 0, evs |-> 0, nds |-> 0]

\* The receiver lives as long as the worker's closure runs.
ReceiverAlive(w) == w \in {"recv", "busy"}

\* Variant: the buffer takes one message more than chan_size.
TrySendOneMore(q, c, alive) ==
    IF ~alive THEN "Disconnected"
    ELSE IF Len(q) > c THEN "Full"
    ELSE "Ok"

\* Variant: an unbounded channel, never Full.
TrySendUnbounded(q, c, alive) == IF ~alive THEN "Disconnected" ELSE "Ok"

\* mpsc::SyncSender::try_send
TrySend(q, c, alive) ==
    IF ~alive THEN "Disconnected"
    ELSE IF Len(q) >= c THEN "Full"
    ELSE "Ok"

\* impl From<mpsc::TrySendError<T>> for AsyncError
FromTrySendError(e) == "Full"

\* Variant: the newest message overtakes the ones waiting.
EnqueueInFront(q, m) == <<m>> \o q

\* the channel keeps send order
Enqueue(q, m) == Append(q, m)

\* rx.recv(): the oldest message
RecvMsg(q) == Head(q)

\* AsyncCore::get_sender fails when the thread has no cached clone and
\* ref_sender.lock() answers PoisonError.
SenderErr(t) == t \notin tl_sender /\ poisoned

\* Variant: get_sender goes to ref_sender on every call.
NeedsLockAlways(t) == TRUE

\* AsyncCore::get_sender: get_or_try runs the closure, and so locks
\* ref_sender, only when the thread has no cached clone yet.
NeedsLock(t) == t \notin tl_sender

\* AsyncCore::send: the AsyncResult it returns
SendResult(t) ==
    IF SenderErr(t) THEN "Fatal"
    ELSE LET e == TrySend(queue, cap, ReceiverAlive(wstate))
         IN  IF e = "Ok" THEN "Ok" ELSE FromTrySendError(e)

\* What one AsyncCore::log call does to the core and the channel.
CoreLog(t, m) ==
    /\ locks' = [locks EXCEPT ![t] = IF NeedsLock(t) THEN @ + 1 ELSE @]
    /\ tl_sender' = IF SenderErr(t) THEN tl_sender ELSE tl_sender \cup {t}
    /\ coreErr' = [coreErr EXCEPT ![t] =
            IF SenderErr(t) THEN "Poison"
            ELSE TrySend(queue, cap, ReceiverAlive(wstate))]
    /\ queue' = IF SendResult(t) = "Ok" THEN Enqueue(queue, m) ELSE queue
    /\ accepted' = IF SendResult(t) = "Ok" THEN accepted + 1 ELSE accepted
    /\ fulls' = IF SendResult(t) = "Full" THEN fulls + 1 ELSE fulls

\* Variant: the dropped notice is not counted.
ReAddWithoutNotice(d, k) == d + k

\* Variant: only the dropped notice is counted, the swapped value is lost.
ReAddOnlyOne(d, k) == d + 1

\* self.dropped.fetch_add(dropped + 1)
ReAdd(d, k) == d + k + 1

\* Variant: a dropped record is counted twice.
CountDropTwice(d) == d + 2

\* Variant: the record of the call is dropped without being counted.
CountDropNone(d) == d

\* self.dropped.fetch_add(1)
CountDrop(d) == d + 1

\* Variant: Async::log hands the core's result on as it is.
FacadeResultRaw(r) == r

\* Variant: the facade answers Ok whatever the core said.
FacadeResultSwallowsAll(r) == "Ok"

\* Async::log's match on the core's result
FacadeResult(r) == IF r = "Full" THEN "Ok" ELSE r

\* Where a thread goes when push_dropped is over: Async::drop ignores its
\* result and AsyncCore::drop follows, Async::log goes on to its own record.
AfterPush(t) == IF phase = "dropping" THEN "finish" ELSE "send"

TotalCalls == calls["p1"] + calls["p2"]

----
\* slog::Record as the caller built it: `msg` is the argument of its
\* fmt::Arguments, `kv` the pairs in the order its KV emits them.
NoRecord == [msg |-> 0, level |-> "none", tag |-> "none", kv |-> <<>>]
\* AsyncRecord { msg, level, tag, kv }; also what the drain is shown.
NoAsyncRecord == [msg |-> 0, level |-> "none", tag |-> "none", kv |-> <<>>]

CoreInit ==
    /\ cap \in 1..MaxCap
    /\ queue = <<>>
    /\ wstate = "recv"
    /\ cur = NoRec
    /\ sunk = <<>>
    /\ dropped = 0
    /\ tl_sender = {}
    /\ poisoned = FALSE
    /\ join = TRUE
    /\ pc = [t \in Threads |-> "idle"]
    /\ n = [t \in Threads |-> 0]
    /\ calls = [t \in Threads |-> 0]
    /\ res = [t \in Threads |-> "none"]
    /\ noticeRes = [t \in Threads |-> "none"]
    /\ eventRes = [t \in Threads |-> "none"]
    /\ coreErr = [t \in Threads |-> "none"]
    /\ phase = "alive"
    /\ dropper = "none"
    /\ fulls = 0
    /\ noticed = 0
    /\ accepted = 0
    /\ evDropped = 0
    /\ heldEv = [t \in Threads |-> 0]
    /\ ndDropped = 0
    /\ heldNd = [t \in Threads |-> 0]
    /\ finishSent = 0
    /\ joinCount = 0
    /\ locks = [t \in Threads |-> 0]
    /\ outcome = [t \in Threads |-> <<>>]
    /\ sunkAt = [t \in Threads |-> 0]

\* No record is followed through the serializer.
Init ==
    /\ CoreInit
    /\ mpc = "off"
    /\ record = NoRecord
    /\ live = TRUE
    /\ arec = NoAsyncRecord
    /\ seen = NoAsyncRecord

\* A producer enters Async::log.
LogStart(t) ==
    /\ phase = "alive"
    /\ t \in Producers
    /\ pc[t] = "idle"
    /\ TotalCalls < MaxLogs
    /\ pc' = [pc EXCEPT ![t] = "swap"]
    /\ calls' = [calls EXCEPT ![t] = @ + 1]
    /\ res' = [res EXCEPT ![t] = "none"]
    /\ noticeRes' = [noticeRes EXCEPT ![t] = "none"]
    /\ eventRes' = [eventRes EXCEPT ![t] = "none"]
    /\ sunkAt' = [sunkAt EXCEPT ![t] = Len(sunk)]
    /\ UNCHANGED <<matVars, chanVars, coreVars, dropVars, countVars, n, coreErr, outcome>>

\* push_dropped: self.dropped.swap(0)
Swap(t) ==
    /\ pc[t] = "swap"
    /\ n' = [n EXCEPT ![t] = dropped]
    /\ heldEv' = [heldEv EXCEPT ![t] = evDropped]
    /\ heldNd' = [heldNd EXCEPT ![t] = ndDropped]
    /\ dropped' = 0
    /\ evDropped' = 0
    /\ ndDropped' = 0
    /\ pc' = [pc EXCEPT ![t] = IF dropped > 0 THEN "notice" ELSE AfterPush(t)]
    /\ UNCHANGED <<matVars, chanVars, coreVars, dropVars, fulls, noticed, accepted,
                   calls, res, noticeRes, eventRes, coreErr, outcome, sunkAt>>

\* push_dropped: self.core.log(the notice) and the match on its result
NoticeSend(t) ==
    /\ pc[t] = "notice"
    /\ CoreLog(t, Notice(t, IF phase = "dropping" THEN 0 ELSE calls[t], n[t], heldEv[t], heldNd[t]))
    /\ noticeRes' = [noticeRes EXCEPT ![t] = SendResult(t)]
    /\ noticed' = IF SendResult(t) = "Ok" THEN noticed + NoticeCount(n[t]) ELSE noticed
    /\ CASE SendResult(t) = "Ok" ->
              /\ pc' = [pc EXCEPT ![t] = AfterPush(t)]
              /\ n' = [n EXCEPT ![t] = 0]
              /\ heldEv' = [heldEv EXCEPT ![t] = 0]
              /\ heldNd' = [heldNd EXCEPT ![t] = 0]
              /\ UNCHANGED <<res, outcome>>
         [] SendResult(t) = "Full" ->
              /\ pc' = [pc EXCEPT ![t] = "readd"]
              /\ UNCHANGED <<n, heldEv, heldNd, res, outcome>>
         [] OTHER ->
              /\ n' = [n EXCEPT ![t] = 0]
              /\ heldEv' = [heldEv EXCEPT ![t] = 0]
              /\ heldNd' = [heldNd EXCEPT ![t] = 0]
              /\ IF phase = "dropping"
                 THEN /\ pc' = [pc EXCEPT ![t] = "finish"]
                      /\ UNCHANGED <<res, outcome>>
                 ELSE /\ pc' = [pc EXCEPT ![t] = "idle"]
                      /\ res' = [res EXCEPT ![t] = SendResult(t)]
                      /\ outcome' = [outcome EXCEPT ![t] = Append(@, "fatal")]
    /\ UNCHANGED <<matVars, cap, wstate, cur, sunk, poisoned, join, dropVars,
                   dropped, evDropped, ndDropped, calls, eventRes, sunkAt>>

\* push_dropped: self.dropped.fetch_add(dropped + 1); return Ok(())
ReAddStep(t) ==
    /\ pc[t] = "readd"
    /\ dropped' = ReAdd(dropped, n[t])
    /\ evDropped' = evDropped + heldEv[t]
    /\ ndDropped' = ndDropped + heldNd[t] + 1
    /\ n' = [n EXCEPT ![t] = 0]
    /\ heldEv' = [heldEv EXCEPT ![t] = 0]
    /\ heldNd' = [heldNd EXCEPT ![t] = 0]
    /\ pc' = [pc EXCEPT ![t] = AfterPush(t)]
    /\ UNCHANGED <<matVars, chanVars, coreVars, dropVars, fulls, noticed, accepted,
                   calls, res, noticeRes, eventRes, coreErr, outcome, sunkAt>>

\* Async::log: self.core.log(record, ..) and the match on its result
EventSend(t) ==
    /\ pc[t] = "send"
    /\ CoreLog(t, Ev(t, calls[t]))
    /\ eventRes' = [eventRes EXCEPT ![t] = SendResult(t)]
    /\ IF SendResult(t) = "Full"
       THEN /\ pc' = [pc EXCEPT ![t] = "count"]
            /\ UNCHANGED <<res, outcome>>
       ELSE /\ pc' = [pc EXCEPT ![t] = "idle"]
            /\ res' = [res EXCEPT ![t] = FacadeResult(SendResult(t))]
            /\ outcome' = [outcome EXCEPT ![t] =
                    Append(@, IF SendResult(t) = "Ok" THEN "sent" ELSE "fatal")]
    /\ UNCHANGED <<matVars, cap, wstate, cur, sunk, poisoned, join, dropVars,
                   dropped, noticed, evDropped, heldEv, ndDropped, heldNd,
                   n, calls, noticeRes, sunkAt>>

\* Async::log: self.dropped.fetch_add(1); return Ok(())
CountStep(t) ==
    /\ pc[t] = "count"
    /\ dropped' = CountDrop(dropped)
    /\ evDropped' = evDropped + 1
    /\ pc' = [pc EXCEPT ![t] = "idle"]
    /\ res' = [res EXCEPT ![t] = FacadeResult("Full")]
    /\ outcome' = [outcome EXCEPT ![t] = Append(@, "dropped")]
    /\ UNCHANGED <<matVars, chanVars, coreVars, dropVars, fulls, noticed, accepted, heldEv,
                   ndDropped, heldNd, n, calls, noticeRes, eventRes, coreErr, sunkAt>>

\* Variant: the core is torn down without the last flush.
DropEntrySkipsFlush == "finish"

\* Async::drop runs push_dropped before the fields, and so the core, are
\* dropped.
DropEntry == "swap"

\* The owner lets go of the Async: Async::drop starts with push_dropped.
\* Ownership makes this happen once, with no log call in progress.
DropStart(t) ==
    /\ phase = "alive"
    /\ \A u \in Threads : pc[u] = "idle"
    /\ phase' = "dropping"
    /\ dropper' = t
    /\ pc' = [pc EXCEPT ![t] = DropEntry]
    /\ UNCHANGED <<matVars, chanVars, coreVars, countVars, finishSent, joinCount,
                   n, calls, res, noticeRes, eventRes, coreErr, outcome, sunkAt>>

\* Variant: a send that never waits for room.
SendReadyAlways(q, c, alive) == TRUE

\* SyncSender::send blocks while the buffer is full and fails at once when
\* the receiver is gone.
SendReady(q, c, alive) == ~alive \/ Len(q) < c

\* AsyncCore::drop: self.get_sender()?.send(AsyncMsg::Finish)
SendFinish(t) ==
    /\ pc[t] = "finish"
    /\ locks' = [locks EXCEPT ![t] = IF NeedsLock(t) THEN @ + 1 ELSE @]
    /\ IF SenderErr(t)
       THEN /\ pc' = [pc EXCEPT ![t] = "end"]
            /\ phase' = "dropped"
            /\ UNCHANGED <<queue, finishSent, tl_sender>>
       ELSE /\ SendReady(queue, cap, ReceiverAlive(wstate))
            /\ tl_sender' = tl_sender \cup {t}
            /\ pc' = [pc EXCEPT ![t] = "join"]
            /\ IF ReceiverAlive(wstate)
               THEN /\ queue' = Enqueue(queue, Finish)
                    /\ finishSent' = finishSent + 1
               ELSE UNCHANGED <<queue, finishSent>>
            /\ UNCHANGED phase
    /\ UNCHANGED <<matVars, cap, wstate, cur, sunk, poisoned, join, countVars, dropper, joinCount,
                   n, calls, res, noticeRes, eventRes, coreErr, outcome, sunkAt>>

\* Variant: the handle is dropped, not joined, so nothing is waited for.
JoinReadyDetached(w) == TRUE

\* JoinHandle::join returns when the worker thread is over.
JoinReady(w) == w \in {"done", "panicked"}

\* AsyncCore::drop: self.join.lock()?.take().unwrap().join()
JoinStep(t) ==
    /\ pc[t] = "join"
    /\ join
    /\ JoinReady(wstate)
    /\ join' = FALSE
    /\ joinCount' = joinCount + 1
    /\ pc' = [pc EXCEPT ![t] = "end"]
    /\ phase' = "dropped"
    /\ UNCHANGED <<matVars, chanVars, tl_sender, poisoned, locks, countVars, dropper, finishSent,
                   n, calls, res, noticeRes, eventRes, coreErr, outcome, sunkAt>>

\* Variant: the worker skips Finish and goes on receiving.
WorkerOnSkipsFinish(m) == IF m.kind = "finish" THEN "recv" ELSE "busy"

\* Variant: Finish is replayed like a record and the loop goes on.
WorkerOnFinishAsRecord(m) == "busy"

\* What the worker does with a message: replay a record, return on Finish.
WorkerOn(m) == IF m.kind = "finish" THEN "done" ELSE "busy"

\* worker: rx.recv().unwrap() and the match
WorkerRecv ==
    /\ wstate = "recv"
    /\ queue # <<>>
    /\ wstate' = WorkerOn(RecvMsg(queue))
    /\ cur' = IF WorkerOn(RecvMsg(queue)) = "busy" THEN RecvMsg(queue) ELSE NoRec
    /\ queue' = Tail(queue)
    /\ UNCHANGED <<matVars, cap, sunk, coreVars, threadVars, dropVars, countVars>>

\* worker: self.drain.log(..).unwrap() returns
WorkerLog ==
    /\ wstate = "busy"
    /\ sunk' = Append(sunk, cur)
    /\ cur' = NoRec
    /\ wstate' = "recv"
    /\ UNCHANGED <<matVars, cap, queue, coreVars, threadVars, dropVars, countVars>>

\* worker: the drain panics; the thread unwinds and the receiver is dropped
\* with whatever the buffer holds.
SinkPanic ==
    /\ wstate = "busy"
    /\ wstate' = "panicked"
    /\ cur' = NoRec
    /\ queue' = <<>>
    /\ UNCHANGED <<matVars, cap, sunk, coreVars, threadVars, dropVars, countVars>>

\* A thread panicked while it held ref_sender's guard.
PoisonLock ==
    /\ ~poisoned
    /\ phase = "alive"
    /\ poisoned' = TRUE
    /\ UNCHANGED <<matVars, chanVars, tl_sender, join, locks, threadVars, dropVars, countVars>>

ThreadStep(t) ==
    \/ LogStart(t)
    \/ Swap(t)
    \/ NoticeSend(t)
    \/ ReAddStep(t)
    \/ EventSend(t)
    \/ CountStep(t)
    \/ DropStart(t)
    \/ SendFinish(t)
    \/ JoinStep(t)

Next ==
    \/ \E t \in Threads : ThreadStep(t)
    \/ WorkerRecv
    \/ WorkerLog

\* The drain keeps its contract (Err = slog::Never, no panic).
Spec == Init /\ [][Next]_vars

FaultNext ==
    \/ Next
    \/ SinkPanic
    \/ PoisonLock

\* The steps of the thread that runs Async::drop and then AsyncCore::drop.
DropRun(t) ==
    /\ phase = "dropping"
    /\ (Swap(t) \/ NoticeSend(t) \/ ReAddStep(t) \/ SendFinish(t) \/ JoinStep(t))

\* Async::log calls made before the drop in the runs LiveSpec covers.
MaxLiveLogs == 3

LiveNext == Next /\ TotalCalls' <= MaxLiveLogs

\* The worker thread and the thread inside drop are scheduled: a step of
\* theirs that stays possible is taken.  The drain returns from every log.
LiveSpec ==
    /\ Init
    /\ [][LiveNext]_vars
    /\ WF_vars(WorkerRecv)
    /\ WF_vars(WorkerLog)
    /\ \A t \in Threads : WF_vars(DropRun(t))

\* The drain may panic and the lock may be poisoned.
FaultSpec == Init /\ [][FaultNext]_vars

----
\* What the drain has seen or will see, in channel order.
Stream == sunk \o (IF cur = NoRec THEN <<>> ELSE <<cur>>) \o queue

Range(f) == {f[i] : i \in DOMAIN f}

\* C1: Async::log never returns Full.  Whatever the queue holds and whatever
\* `dropped` is, a call whose notice, whose record, or both were answered Full
\* by the core returns Ok; a call returns nothing but Ok or Fatal.
FacadeAbsorbsFull ==
    \A t \in Producers :
        /\ res[t] \in {"none", "Ok", "Fatal"}
        /\ (pc[t] = "idle" /\ (noticeRes[t] = "Full" \/ eventRes[t] = "Full"))
               => res[t] = "Ok"

\* A call whose notice and whose record were both answered Full returned Ok.
FacadeAbsorbsFullWitness ==
    \E t \in Producers :
        /\ pc[t] = "idle"
        /\ noticeRes[t] = "Full"
        /\ eventRes[t] = "Full"
        /\ res[t] = "Ok"

\* C2: when AsyncCore::drop has returned, the worker has exited and the drain
\* has logged every record that was enqueued before the drop started.
DisposalDrains ==
    phase = "dropped" =>
        /\ wstate = "done"
        /\ \A t \in Producers : \A i \in DOMAIN outcome[t] :
               outcome[t][i] = "sent" => Ev(t, i) \in Range(sunk)
        /\ Len(sunk) = accepted

\* The drop returned after a full queue of records had been enqueued.
DisposalDrainsWitness ==
    /\ phase = "dropped"
    /\ cap > 1
    /\ \E t \in Producers :
           Cardinality({i \in DOMAIN outcome[t] : outcome[t][i] = "sent"}) >= cap
    /\ Len(sunk) >= cap

\* C3: the drain logs the records of one producer thread in the order that
\* thread sent them, whatever the other threads and the worker do.
PerProducerFifo ==
    \A i, j \in DOMAIN sunk :
        (i < j /\ sunk[i].kind = "ev" /\ sunk[j].kind = "ev" /\ sunk[i].by = sunk[j].by)
            => sunk[i].seq < sunk[j].seq

\* Two records of one producer were logged with a record of the other
\* producer between them.
PerProducerFifoWitness ==
    \E i, j, k \in DOMAIN sunk :
        /\ i < j /\ j < k
        /\ sunk[i].kind = "ev" /\ sunk[j].kind = "ev" /\ sunk[k].kind = "ev"
        /\ sunk[i].by = sunk[k].by
        /\ sunk[j].by # sunk[i].by


\* The notice and the record of thread t's last call, when both were enqueued:
\* the places they hold in the stream.
NoticePlaces(t) ==
    {j \in DOMAIN Stream :
        Stream[j].kind = "notice" /\ Stream[j].by = t /\ Stream[j].seq = calls[t]}
EventPlaces(t) == {k \in DOMAIN Stream : Stream[k] = Ev(t, calls[t])}

\* C4 as stated: after a burst that dropped n >= 1 callers' records, the next
\* call that enqueues both its notice and its record puts a notice whose count
\* is exactly n, the number of callers' records dropped, in front of its record.
NoticeCountsCallerRecords ==
    \A t \in Producers :
        (pc[t] = "idle" /\ noticeRes[t] = "Ok" /\ eventRes[t] = "Ok") =>
            \E j \in NoticePlaces(t) : \E k \in EventPlaces(t) :
                /\ j < k
                /\ Stream[j].count >= 1
                /\ Stream[j].count = Stream[j].evs

\* C4 amended: the count of that notice is the value swapped out of `dropped`:
\* the callers' records dropped plus one for every notice that was dropped
\* itself since the last notice was enqueued; the notice is in front of the
\* record of its call, in the channel and so at the drain.
NoticeThenEvent ==
    /\ \A t \in Producers :
          (pc[t] = "idle" /\ noticeRes[t] = "Ok" /\ eventRes[t] = "Ok") =>
              \E j \in NoticePlaces(t) : \E k \in EventPlaces(t) :
                  /\ j < k
                  /\ Stream[j].count >= 1
                  /\ Stream[j].count = Stream[j].evs + Stream[j].nds
    /\ \A j, k \in DOMAIN Stream :
          (/\ Stream[j].kind = "notice" /\ Stream[k].kind = "ev"
           /\ Stream[j].by = Stream[k].by /\ Stream[j].seq = Stream[k].seq) => j < k
    /\ \A j \in DOMAIN Stream :
          Stream[j].kind = "notice" =>
              Stream[j].count = Stream[j].evs + Stream[j].nds /\ Stream[j].evs >= 1

\* The drain logged a notice that counts two callers' records and one dropped
\* notice, and after it the record of the same call.
NoticeThenEventWitness ==
    \E j, k \in DOMAIN sunk :
        /\ j < k
        /\ sunk[j].kind = "notice" /\ sunk[j].count = 3 /\ sunk[j].evs = 2
        /\ sunk[k] = Ev(sunk[j].by, sunk[j].seq)

\* C5: with chan_size k, an empty queue and a worker that receives nothing,
\* the first k calls of a lone producer are enqueued and every further one is
\* answered Full; after k + 1 calls exactly one record was dropped and
\* `dropped` is 1.
BurstOverflowsOnce ==
    \A t \in Producers :
        (/\ \A u \in Producers \ {t} : calls[u] = 0
         /\ phase = "alive" /\ wstate = "recv" /\ sunk = <<>>) =>
            /\ \A i \in DOMAIN outcome[t] :
                  outcome[t][i] = IF i <= cap THEN "sent" ELSE "dropped"
            /\ (pc[t] = "idle" /\ calls[t] = cap + 1) =>
                  /\ fulls = 1
                  /\ dropped = 1
                  /\ queue = [i \in 1..cap |-> Ev(t, i)]

\* chan_size 2: three calls in a row, the worker idle; the third was dropped.
BurstOverflowsOnceWitness ==
    /\ cap = 2
    /\ calls["p1"] = 3 /\ calls["p2"] = 0 /\ pc["p1"] = "idle"
    /\ wstate = "recv" /\ sunk = <<>>
    /\ outcome["p1"] = <<"sent", "sent", "dropped">>
    /\ dropped = 1


\* The result AsyncCore::log gave thread t in the step just taken.
CoreAnswer(t) == IF pc[t] = "notice" THEN noticeRes'[t] ELSE eventRes'[t]

\* C6: AsyncCore's enqueue never waits.  In every state a thread that is about
\* to enqueue can take that step, whatever the queue holds and whatever the
\* worker and the other threads are doing; the step answers Ok and appends the
\* record when the queue has room, and answers Full and leaves the queue as it
\* was when it has none.
EnqueueNeverBlocks ==
    /\ [](\A t \in Threads :
            pc[t] \in {"notice", "send"} => ENABLED (NoticeSend(t) \/ EventSend(t)))
    /\ [][\A t \in Threads :
            (pc[t] \in {"notice", "send"} /\ pc'[t] # pc[t]) =>
                IF Len(queue) < cap
                THEN /\ CoreAnswer(t) = "Ok"
                     /\ Len(queue') = Len(queue) + 1
                     /\ SubSeq(queue', 1, Len(queue)) = queue
                     /\ queue'[Len(queue')].by = t
                ELSE /\ CoreAnswer(t) = "Full"
                     /\ queue' = queue]_vars

\* A thread was answered Full on a full queue while the worker was busy in the
\* drain and another thread was in the middle of its own call.
EnqueueNeverBlocksWitness ==
    \E t, u \in Producers :
        /\ t # u
        /\ pc[t] = "count" /\ coreErr[t] = "Full"
        /\ Len(queue) = cap
        /\ wstate = "busy"
        /\ pc[u] \in {"notice", "send"}

\* C7 as stated: once the worker thread has died, the core answers an enqueue
\* with Fatal and Async::log returns Fatal instead of counting a drop.
DeadWorkerIsFatal ==
    \A t \in Producers :
        (coreErr[t] = "Disconnected" /\ pc[t] = "idle") =>
            /\ eventRes[t] = "Fatal"
            /\ res[t] = "Fatal"

\* C8: one Finish at most is ever enqueued and the worker is joined once at
\* most; when the drop has returned it is exactly one of each.  Finish is the
\* last message in the channel and the last one the worker takes: the worker
\* is over as soon as it has taken it and the drain logs nothing from then on.
OneFinishOneJoin ==
    /\ [](/\ finishSent <= 1
          /\ joinCount <= 1
          /\ phase = "dropped" => (finishSent = 1 /\ joinCount = 1 /\ ~join)
          /\ \A i \in DOMAIN queue : queue[i].kind = "finish" => i = Len(queue)
          /\ (finishSent = 1 /\ \A i \in DOMAIN queue : queue[i].kind # "finish")
                => (wstate = "done" /\ queue = <<>> /\ cur = NoRec)
          /\ \A i \in DOMAIN sunk : sunk[i].kind # "finish")
    /\ [][wstate = "done" => (wstate' = "done" /\ sunk' = sunk /\ queue' = queue)]_vars

\* The drop has returned after the worker logged records and took Finish.
OneFinishOneJoinWitness ==
    /\ phase = "dropped"
    /\ finishSent = 1 /\ joinCount = 1
    /\ wstate = "done"
    /\ Len(sunk) >= 2

Sum(f) == f["p1"] + f["p2"] + f[Main]

\* C9 as stated: in every state, `dropped` plus the values swapped out by the
\* threads still inside a call plus the counts of the notices enqueued is the
\* number of enqueues answered Full.
DropAccountingExact == dropped + Sum(n) + noticed = fulls

\* Threads that were answered Full and have not yet done their fetch_add.
Owing == {t \in Threads : pc[t] \in {"readd", "count"}}

\* C9 amended: the same sum, plus one for every thread that was answered Full
\* and has not yet executed its fetch_add, is the number of enqueues answered
\* Full: nothing swapped out is ever discarded.
DropAccounting == dropped + Sum(n) + noticed + Cardinality(Owing) = fulls

\* Both producers are inside a call: one holds a swapped-out value whose
\* notice was answered Full, the other was answered Full for its record.
DropAccountingWitness ==
    \E t, u \in Producers :
        /\ pc[t] = "readd" /\ n[t] > 0
        /\ pc[u] = "count"
        /\ fulls >= 3

\* C10: chan_size 2, one producer, the worker idle: A and B are enqueued, C is
\* dropped and `dropped` is 1.  The worker logs A and B; the call for D then
\* enqueues a notice with count 1 and D, `dropped` is 0 again, and the drain
\* logs exactly A, B, the notice, D.
ExampleTrace ==
    LET A == Ev("p1", 1)
        B == Ev("p1", 2)
        D == Ev("p1", 4)
        N == Notice("p1", 4, 1, 1, 0)
    IN  (cap = 2 /\ calls["p2"] = 0 /\ phase = "alive") =>
            /\ (calls["p1"] = 3 /\ pc["p1"] = "idle" /\ sunk = <<>> /\ wstate = "recv") =>
                  /\ outcome["p1"] = <<"sent", "sent", "dropped">>
                  /\ queue = <<A, B>>
                  /\ dropped = 1
            /\ (/\ calls["p1"] = 4 /\ pc["p1"] = "idle" /\ sunkAt["p1"] = 2
                 /\ SubSeq(outcome["p1"], 1, 3) = <<"sent", "sent", "dropped">>) =>
                  /\ outcome["p1"][4] = "sent"
                  /\ N.count = 1
                  /\ Stream = <<A, B, N, D>>
                  /\ dropped = 0
                  /\ (queue = <<>> /\ wstate = "recv") => sunk = <<A, B, N, D>>

\* The end of that trace: D was logged after A and B, and the drain has A, B,
\* the notice with count 1, D.
ExampleTraceWitness ==
    /\ cap = 2 /\ calls["p1"] = 4 /\ calls["p2"] = 0 /\ phase = "alive"
    /\ pc["p1"] = "idle" /\ sunkAt["p1"] = 2
    /\ outcome["p1"] = <<"sent", "sent", "dropped", "sent">>
    /\ Len(sunk) = 4 /\ sunk[3].kind = "notice" /\ sunk[3].count = 1
    /\ sunk[4] = Ev("p1", 4)
    /\ dropped = 0

\* C12: when a log call has swapped n > 0 out of `dropped` and its notice is
\* answered Full, the call adds exactly n + 1 back and then still tries to
\* enqueue its own record; when that is answered Full too, it adds one more.
FailedFlushReAdds ==
    /\ [](\A t \in Threads :
            pc[t] = "readd" => (n[t] > 0 /\ noticeRes[t] = "Full"))
    /\ [][\A t \in Producers :
            /\ (phase = "alive" /\ pc[t] = "notice" /\ noticeRes'[t] = "Full")
                  => (pc'[t] = "readd" /\ dropped' = dropped /\ queue' = queue)
            /\ (phase = "alive" /\ pc[t] = "readd" /\ pc'[t] # "readd")
                  => (dropped' = dropped + n[t] + 1 /\ pc'[t] = "send")
            /\ (pc[t] = "send" /\ pc'[t] # "send")
                  => (/\ eventRes'[t] # "none"
                      /\ eventRes'[t] = "Full" => pc'[t] = "count"
                      /\ eventRes'[t] = "Ok" => queue' = Append(queue, Ev(t, calls[t])))
            /\ (pc[t] = "count" /\ pc'[t] # "count")
                  => dropped' = dropped + 1]_vars

\* A call whose notice was answered Full added 1 + 1 back, tried its own
\* record, was answered Full again and left `dropped` at 3.
FailedFlushReAddsWitness ==
    \E t \in Producers :
        /\ calls[t] = 3 /\ TotalCalls = 3
        /\ pc[t] = "idle"
        /\ noticeRes[t] = "Full" /\ eventRes[t] = "Full"
        /\ dropped = 3

\* The notice Async::drop enqueued, if any: the places it holds.
FlushPlaces(s) == {i \in DOMAIN s : s[i].kind = "notice" /\ s[i].seq = 0}

\* C13: Async::drop tries its last flush before AsyncCore::drop sends Finish.
\* With `dropped` = n > 0 at disposal and room in the queue the notice with
\* count n is enqueued, Finish is never in the queue ahead of it, and it is
\* the last record the drain logs before the worker exits.
FlushBeforeFinish ==
    /\ [](phase # "alive" =>
            /\ pc[dropper] \in {"swap", "notice", "readd"} =>
                  (finishSent = 0 /\ \A i \in DOMAIN queue : queue[i].kind # "finish")
            /\ (pc[dropper] \in {"finish", "join", "end"} /\ dropped > 0) =>
                  (noticeRes[dropper] = "Full" /\ dropped >= 2)
            /\ \A i \in FlushPlaces(queue) : \A j \in DOMAIN queue :
                  queue[j].kind = "finish" => i < j
            /\ (phase = "dropped" /\ FlushPlaces(sunk) # {}) =>
                  (FlushPlaces(sunk) = {Len(sunk)} /\ wstate = "done"))
    /\ [][phase = "dropping" =>
            /\ (pc[dropper] = "swap" /\ pc'[dropper] # "swap") =>
                  (/\ n'[dropper] = dropped
                   /\ pc'[dropper] = IF dropped > 0 THEN "notice" ELSE "finish")
            /\ (pc[dropper] = "notice" /\ pc'[dropper] # "notice" /\ Len(queue) < cap) =>
                  (/\ Len(queue') = Len(queue) + 1
                   /\ FlushPlaces(queue') = {Len(queue')}
                   /\ queue'[Len(queue')].count = n[dropper]
                   /\ pc'[dropper] = "finish")]_vars

\* The drop has returned; the last record the drain logged is the notice
\* of the disposal, with count 2.
FlushBeforeFinishWitness ==
    /\ phase = "dropped"
    /\ wstate = "done"
    /\ Len(sunk) >= 2
    /\ FlushPlaces(sunk) = {Len(sunk)}
    /\ sunk[Len(sunk)].count = 2

\* C15: the step in which the worker takes Finish off the queue ends the
\* worker: nothing is handed to the drain in that step, and from then on the
\* worker receives nothing and the drain logs nothing, whatever the queue
\* holds.
WorkerStopsAtFinish ==
    [][/\ (wstate = "recv" /\ queue # << >> /\ queue' = Tail(queue)
             /\ Head(queue).kind = "finish")
           => (wstate' = "done" /\ cur' = NoRec /\ sunk' = sunk)
       /\ wstate = "done"
           => (wstate' = "done" /\ sunk' = sunk /\ cur' = cur
               /\ Len(queue') >= Len(queue))]_vars

\* The worker has returned on Finish after logging at least one record, and
\* the thread that dropped the logger has not yet joined it.
WorkerStopsAtFinishWitness ==
    /\ wstate = "done"
    /\ Len(sunk) >= 1
    /\ phase = "dropping"
    /\ pc[dropper] = "join"

\* C16: the channel made by sync_channel(chan_size) never holds more than
\* chan_size messages, records and Finish together.
QueueBounded == Len(queue) <= cap

\* The channel of capacity 2 is full and its last message is Finish.
QueueBoundedWitness ==
    /\ cap = MaxCap
    /\ Len(queue) = cap
    /\ queue[cap].kind = "finish"
    /\ queue[1].kind = "notice"

\* C17: when AsyncCore::log answers Fatal for the caller's own record,
\* Async::log returns Fatal to the caller in that same step and `dropped`
\* is not changed by it: the call is over without a count step.
FatalPropagated ==
    /\ [](\A t \in Producers :
            (pc[t] = "idle" /\ eventRes[t] = "Fatal") =>
                (/\ res[t] = "Fatal"
                 /\ outcome[t] # << >>
                 /\ outcome[t][Len(outcome[t])] = "fatal"))
    /\ [][\A t \in Producers :
            (pc[t] = "send" /\ pc'[t] # "send" /\ eventRes'[t] = "Fatal") =>
                (/\ pc'[t] = "idle"
                 /\ res'[t] = "Fatal"
                 /\ dropped' = dropped
                 /\ evDropped' = evDropped
                 /\ queue' = queue)]_vars

\* A call has returned Fatal for its record while `dropped` stood at 1,
\* and `dropped` still stands at 1.
FatalPropagatedWitness ==
    \E t \in Producers :
        /\ pc[t] = "idle"
        /\ eventRes[t] = "Fatal"
        /\ res[t] = "Fatal"
        /\ coreErr[t] = "Poison"
        /\ dropped = 1

\* C18: within one Async::log call the notice goes first.  A lone producer
\* whose call swaps n > 0 out of `dropped` and finds one free slot enqueues
\* the notice with count n in it; with the worker taking nothing meanwhile its
\* own record is answered Full and counted; the call returns Ok and leaves
\* `dropped` at 1.
NoticeBeforeOwnRecord ==
    /\ [](\A t \in Producers :
            (/\ \A u \in Producers \ {t} : calls[u] = 0
             /\ phase = "alive" /\ pc[t] = "idle"
             /\ noticeRes[t] = "Ok" /\ eventRes[t] = "Full") =>
                /\ res[t] = "Ok"
                /\ dropped = 1
                /\ outcome[t][Len(outcome[t])] = "dropped"
                /\ NoticePlaces(t) # {}
                /\ EventPlaces(t) = {})
    /\ [][\A t \in Producers :
            (\A u \in Producers \ {t} : calls[u] = 0) /\ phase = "alive" =>
                /\ (pc[t] = "swap" /\ pc'[t] # "swap") =>
                      (n'[t] = dropped /\ dropped' = 0)
                /\ (pc[t] = "notice" /\ pc'[t] # "notice" /\ Len(queue) = cap - 1) =>
                      (/\ n[t] > 0
                       /\ Len(queue') = cap
                       /\ queue'[cap].kind = "notice"
                       /\ queue'[cap].by = t
                       /\ queue'[cap].count = n[t]
                       /\ pc'[t] = "send")
                /\ (pc[t] = "send" /\ pc'[t] # "send" /\ Len(queue) = cap) =>
                      (queue' = queue /\ pc'[t] = "count" /\ dropped' = dropped)
                /\ (pc[t] = "count" /\ pc'[t] # "count") =>
                      (dropped' = dropped + 1 /\ res'[t] = "Ok" /\ pc'[t] = "idle")]_vars

\* chan_size 1: the third call of a lone producer found `dropped` at 1 and
\* the slot free; the notice with count 1 sits in the slot, the record of the
\* call was dropped, `dropped` is 1 again.
NoticeBeforeOwnRecordWitness ==
    /\ cap = 1
    /\ calls["p1"] = 3 /\ calls["p2"] = 0 /\ pc["p1"] = "idle"
    /\ phase = "alive"
    /\ sunkAt["p1"] = Len(sunk) /\ wstate = "recv"
    /\ Len(queue) = 1 /\ queue[1].kind = "notice" /\ queue[1].count = 1
    /\ noticeRes["p1"] = "Ok" /\ eventRes["p1"] = "Full"
    /\ res["p1"] = "Ok"
    /\ dropped = 1

\* C19 as stated: AsyncCore::drop sends Finish on the handle kept in
\* ref_sender, so every step that enqueues Finish acquires the lock of
\* ref_sender.
FinishOnRefSender ==
    [][finishSent' = finishSent + 1 => locks'[dropper] = locks[dropper] + 1]_vars

\* C19 amended: a thread acquires the lock of ref_sender in its first
\* get_sender call and in no other: that call is its first send of a record
\* or, for a thread that never sent one, the send of Finish.  Every later
\* send of the thread, Finish included, goes through its cached clone and
\* leaves the lock alone.
LockOnlyForFirstClone ==
    /\ [](\A t \in Threads :
            /\ locks[t] <= 1
            /\ locks[t] = 1 <=> t \in tl_sender)
    /\ [][\A t \in Threads :
            /\ locks'[t] # locks[t] =>
                  (/\ t \notin tl_sender
                   /\ t \in tl_sender'
                   /\ pc[t] \in {"notice", "send", "finish"}
                   /\ pc'[t] # pc[t]
                   /\ locks'[t] = locks[t] + 1)
            /\ (t \in tl_sender /\ pc[t] \in {"notice", "send", "finish"}) =>
                  locks'[t] = locks[t]
            /\ (pc[t] = "finish" /\ pc'[t] = "join") =>
                  (/\ t \in tl_sender'
                   /\ finishSent' = finishSent + 1
                   /\ locks'[t] = locks[t] + (IF t \in tl_sender THEN 0 ELSE 1))]_vars

\* A producer thread that logged twice has dropped the logger: it locked
\* ref_sender once, for its clone, and Finish went through that clone.
LockOnlyForFirstCloneWitness ==
    /\ phase = "dropped"
    /\ dropper \in Producers
    /\ calls[dropper] >= 2
    /\ finishSent = 1
    /\ locks[dropper] = 1

\* C14: with the worker scheduled and the drain returning from every log, a
\* drop of the logger that has started, on a full queue as well, gets to
\* the end: Finish is enqueued, the worker returns, and the join and with it
\* the drop return.
DisposalTerminates ==
    (phase = "dropping") ~>
        (phase = "dropped" /\ finishSent = 1 /\ wstate = "done" /\ joinCount = 1)

\* The drop has returned although its own flush found the queue full.
DisposalTerminatesWitness ==
    /\ phase = "dropped"
    /\ dropper = Main
    /\ noticeRes[Main] = "Full"
    /\ cap = MaxCap
    /\ finishSent = 1
    /\ wstate = "done"

----
\* One record through ToSendSerializer, AsyncCore::log and the worker's replay.

\* Most pairs one record carries.
MaxPairs == 3

\* The texts that occur.  A String or &str value is its place in Text;
\* an integer, a bool (0, 1) and the argument of a fmt::Arguments are numbers.
Text == <<"a", "b", "1", "2">>
\* fmt::format: the text of the argument
Format(x) == CHOOSE i \in DOMAIN Text : Text[i] = ToString(x)

Keys == {"k1", "k2"}
\* The pairs a caller's KV can emit: emit_str, emit_arguments, emit_i64,
\* emit_bool, emit_none.
Pairs ==
    [key : Keys, ty : {"str"}, val : {1, 2}]
        \cup [key : Keys, ty : {"args"}, val : {1, 2}]
        \cup [key : Keys, ty : {"i64"}, val : {1, 2}]
        \cup [key : Keys, ty : {"bool"}, val : {0, 1}]
        \cup [key : Keys, ty : {"none"}, val : {0}]
PairSeqs == UNION {[1..k -> Pairs] : k \in 0..MaxPairs}
Records ==
    {[msg |-> h[1], level |-> h[2], tag |-> h[3], kv |-> s] :
        h \in {<<1, "Info", 1>>, <<2, "Error", 2>>}, s \in PairSeqs}

\* What a read of the i-th borrowed value of the caller gives: the value as
\* long as the caller's data is as it was, no value of the caller's once
\* it is not.
Cell(i) == IF live THEN record.kv[i].val ELSE -1

\* A value the serializer holds: `is` when it owns it (at = 0), the
\* caller's cell `at` when it does not.
ByValue(v) == [at |-> 0, is |-> v]
\* Variant: the text is not copied, the chain keeps the caller's &str.
ToOwnedAliasing(i) == [at |-> i, is |-> 0]
\* val.to_owned()
ToOwned(i) == ByValue(Cell(i))
Read(v) == IF v.at = 0 THEN v.is ELSE Cell(v.at)

SingleKV(key, ty, val) == [key |-> key, ty |-> ty, val |-> val]
\* Variant: the new pair goes behind the chain.
PrependAtEnd(kv, e) == Append(kv, e)
\* take(&mut self.kv, |kv| Box::new((SingleKV(key, val), kv)))
Prepend(kv, e) == <<e>> \o kv

emit_bool(kv, key, val) == Prepend(kv, SingleKV(key, "bool", ByValue(val)))
emit_i64(kv, key, val) == Prepend(kv, SingleKV(key, "i64", ByValue(val)))
emit_none(kv, key) == Prepend(kv, SingleKV(key, "Option", ByValue(0)))
emit_str(kv, key, i) == Prepend(kv, SingleKV(key, "String", ToOwned(i)))
emit_arguments(kv, key, i) ==
    Prepend(kv, SingleKV(key, "String", ByValue(Format(Cell(i)))))

\* The caller's i-th pair calls the emit_ method of its value's type.
EmitPair(kv, i) ==
    LET p == record.kv[i]
    IN  CASE p.ty = "bool" -> emit_bool(kv, p.key, p.val)
          [] p.ty = "i64" -> emit_i64(kv, p.key, p.val)
          [] p.ty = "none" -> emit_none(kv, p.key)
          [] p.ty = "str" -> emit_str(kv, p.key, i)
          [] p.ty = "args" -> emit_arguments(kv, p.key, i)

\* record.kv().serialize(record, &mut ser), from the i-th pair on
RECURSIVE Serialize(_, _)
Serialize(i, kv) ==
    IF i > Len(record.kv) THEN kv ELSE Serialize(i + 1, EmitPair(kv, i))

\* The worker's replay of one pair: the Value impl of the owned type calls
\* emit_str for a String, emit_none for the None, emit_bool, emit_i64.
Shown(e) ==
    [key |-> e.key,
     ty |-> CASE e.ty = "String" -> "str"
              [] e.ty = "Option" -> "none"
              [] OTHER -> e.ty,
     val |-> Read(e.val)]

\* BorrowedKV(&r.kv) serialized for the drain: a chain (SingleKV, rest)
\* gives its pair, then the rest; () gives nothing.
RECURSIVE Replay(_)
Replay(kv) == IF kv = <<>> THEN <<>> ELSE <<Shown(Head(kv))>> \o Replay(Tail(kv))

mainVars == <<chanVars, coreVars, threadVars, dropVars, countVars>>

\* One caller's record, any of Records, is about to be logged.
MatInit ==
    /\ CoreInit
    /\ cap = 1
    /\ mpc = "call"
    /\ record \in Records
    /\ live = TRUE
    /\ arec = NoAsyncRecord
    /\ seen = NoAsyncRecord

\* AsyncCore::log: serialize the pairs, build the AsyncRecord, send it.
MatLog ==
    /\ mpc = "call"
    /\ arec' = [msg |-> Format(record.msg),
                level |-> record.level,
                tag |-> record.tag,
                kv |-> Serialize(1, <<>>)]
    /\ mpc' = "sent"
    /\ UNCHANGED <<mainVars, record, live, seen>>

\* The call has returned; what its Record borrowed is the caller's again.
MatReturn ==
    /\ mpc \in {"sent", "done"}
    /\ live
    /\ live' = FALSE
    /\ UNCHANGED <<mainVars, mpc, record, arec, seen>>

\* The worker: Record::new(&rs, &format_args!("{}", r.msg), BorrowedKV(&r.kv))
\* is logged by the drain.
MatReplay ==
    /\ mpc = "sent"
    /\ seen' = [msg |-> arec.msg,
                level |-> arec.level,
                tag |-> arec.tag,
                kv |-> Replay(arec.kv)]
    /\ mpc' = "done"
    /\ UNCHANGED <<mainVars, record, live, arec>>

MatNext ==
    \/ MatLog
    \/ MatReturn
    \/ MatReplay

MatSpec == MatInit /\ [][MatNext]_vars

\* How often x occurs in s.
Count(x, s) == Cardinality({i \in DOMAIN s : s[i] = x})

\* C11: a record whose pairs are strings, integers, booleans and absent
\* values is shown to the drain with the message, level and tag of the call
\* and with the same pairs, each as often as the call had it, with its key,
\* its type (the absent value as emit_none) and the value it had during the
\* call, whatever became of the caller's data afterwards.
RoundTrip ==
    (/\ mpc = "done"
     /\ \A i \in DOMAIN record.kv : record.kv[i].ty \in {"str", "i64", "bool", "none"}) =>
        /\ seen.msg = Format(record.msg)
        /\ seen.level = record.level
        /\ seen.tag = record.tag
        /\ Len(seen.kv) = Len(record.kv)
        /\ \A i \in DOMAIN record.kv :
              Count(record.kv[i], seen.kv) = Count(record.kv[i], record.kv)

\* A string, a boolean and an absent value were replayed after the call
\* had returned and the caller's data was gone.
RoundTripWitness ==
    /\ mpc = "done"
    /\ ~live
    /\ Len(record.kv) = MaxPairs
    /\ {record.kv[i].ty : i \in DOMAIN record.kv} = {"str", "bool", "none"}
    /\ {seen.kv[i].ty : i \in DOMAIN seen.kv} = {"str", "bool", "none"}
    /\ Text[seen.msg] = "2"

\* The pair the drain is shown for the caller's pair p: a fmt::Arguments
\* arrives as the text it was formatted to, every other value as it is.
AtDrain(p) ==
    IF p.ty = "args"
    THEN [key |-> p.key, ty |-> "str", val |-> Format(p.val)]
    ELSE p

\* C20: every emit_ call puts its pair in front of the chain, so the chain
\* AsyncCore::log sends holds the pairs the caller's KV emitted in reverse
\* order, and the replay shows them to the drain in that reverse order; a
\* record without pairs gives the empty chain.
ChainReversed ==
    /\ mpc \in {"sent", "done"} =>
          /\ Len(arec.kv) = Len(record.kv)
          /\ \A i \in DOMAIN arec.kv :
                arec.kv[i].key = record.kv[Len(record.kv) + 1 - i].key
    /\ mpc = "done" =>
          /\ Len(seen.kv) = Len(record.kv)
          /\ \A i \in DOMAIN seen.kv :
                seen.kv[i] = AtDrain(record.kv[Len(record.kv) + 1 - i])

\* Three pairs, the first and the last not the same, have been replayed:
\* the drain was shown the last one first.
ChainReversedWitness ==
    /\ mpc = "done"
    /\ Len(record.kv) = MaxPairs
    /\ record.kv[1].ty = "args"
    /\ record.kv[1].key # record.kv[MaxPairs].key
    /\ seen.kv[1].key = record.kv[MaxPairs].key
    /\ seen.kv[MaxPairs].key = record.kv[1].key
    /\ seen.kv[MaxPairs].ty = "str"

====
